---- MODULE Spec2Model ----
(***************************************************************************)
(* Voice Input: cross-invocation coordination through /tmp/voice-input.pid *)
(* (ProcessManager), the entry point (index.js main) and the session       *)
(* driven by VoiceInputApp.run with SimpleAudioRecorder as capture engine. *)
(*                                                                         *)
(* Every invocation of the command is one OS process p \in Procs; its pid  *)
(* is p.  A step of the model is one system call or one turn of the        *)
(* process's event loop: synchronous JavaScript between two awaits is one  *)
(* step, file-system calls and signals of different processes interleave.  *)
(*                                                                         *)
(* Two components are exercised on their own, each under a specification   *)
(* of its own: one call of a provider's transcribe() with its retry loop   *)
(* (SpecCall) and one call of ProviderFactory.autoDetect (SpecSelect).     *)
(* SpecStopped runs the invocations from a session whose capture is over.  *)
(* SpecStops runs one owner under any number of stop signals.              *)
(* SpecInvalid starts the invocations on a pid file that holds no pid.     *)
(* SpecRuns follows VoiceInputApp.run with its notification sounds over    *)
(* successive sessions, SpecLog a LogManager over successive log() calls.  *)
(***************************************************************************)
EXTENDS Integers, FiniteSets, Sequences, TLC

\* ------------------------------------------------------------------ bounds
MaxProcs == 2

Procs == 1..MaxProcs

\* ---------------------------------------------------------------- constants
None == 0               \* no pid file / no pid read
WavHeaderBytes == 44
NotExited == -1
ExitOk == 0
ExitError == 1
ExitKilled == 143       \* death by a signal's default action, no handler ran
NoRead == -1            \* stopRecording has not read a recorded file

VARIABLES
    apiKey,         \* process.env.NEXARA_API_KEY is set (shared .env)
    pidFile,        \* content of /tmp/voice-input.pid: None, a pid or
                    \* content that createPidFile never writes
    pc,             \* position of each process in main()
    existingPid,    \* checkAndStopExisting: the pid parsed from the file
    sess,           \* session state of the process
    isRecording,    \* SimpleAudioRecorder.isRecording
    rec,            \* the arecord child: none | running | exited | gone
    killed,         \* recordingProcess.killed
    exitListener,   \* stopRecording attached its 'exit' listener
    audioLen,       \* bytes of the recorded file the 'exit' listener read
    stopPending,    \* a SIGUSR1 is delivered and not yet handled
    exitCode,       \* process exit status
    exitWhy,        \* the path on which the process ended
    branch,         \* what the lock inspection found
    sentStop,       \* none | armed | unarmed | dead: target when kill() ran
    wrote,          \* the process wrote the pid file
    removed,        \* the process unlinked the pid file
    cleaned,        \* the process ran ProcessManager.cleanup()
    fatal           \* kind of fatal error the process met

\* one call of a provider's transcribe(audioBuffer)
VARIABLES
    provider,       \* the class whose transcribe() runs
    cfgRetries,     \* config.maxRetries: <<>> (undefined) or <<n>>
    audioEmpty,     \* the audioBuffer argument is missing or has length 0
    maxRetries,     \* this.maxRetries, the bound of the for loop
    attempt,        \* the loop variable
    tstate,         \* Entry | LoopTest | Request | Backoff | Returned | Threw
    outcomes,       \* what each request so far ended with
    waits,          \* the setTimeout delays so far, in ms
    result          \* how the call ended and with what

\* one call of ProviderFactory.autoDetect(env)
VARIABLES
    registry,       \* ProviderFactory.providers: the registered names
    env,            \* the environment handed to autoDetect
    sel             \* where the selection stands and what it produced

\* successive sessions of VoiceInputApp.run, one per invocation
VARIABLES
    runAt,          \* where run() stands, see RunPositions
    sessionNo,      \* the sessions begun so far; the running one's id
    captured,       \* the sessions so far that handed audio to transcribeAudio
    audio,          \* this session's audioBuffer is set
    played,         \* the sound subprocesses of this session, in spawn order
    soundOn,        \* SimpleSoundNotifier options.enabled
    recordings,     \* var/recordings: the session ids with a backup file
    runExit         \* the code process.exit was called with, or NotExited

\* one LogManager over successive log() calls
VARIABLES
    logFile,        \* voice-input.log: exists, and its lines
    oldFile,        \* voice-input.log.old: exists, and its lines
    maxSize,        \* options.maxSize
    logOn           \* options.enabled

invocations == << apiKey, pidFile, pc, existingPid, sess, isRecording, rec,
                  killed, exitListener, audioLen, stopPending, exitCode,
                  exitWhy, branch, sentStop, wrote, removed, cleaned, fatal >>

call == << provider, cfgRetries, audioEmpty, maxRetries, attempt, tstate,
           outcomes, waits, result >>

selection == << registry, env, sel >>

runs == << runAt, sessionNo, captured, audio, played, soundOn, recordings,
          runExit >>

logs == << logFile, oldFile, maxSize, logOn >>

\* the components that are exercised on their own
aside == << call, selection, runs, logs >>

vars == << invocations, aside >>

coord == << existingPid, branch, sentStop >>
recorder == << isRecording, rec, killed, exitListener, audioLen >>

\* ------------------------------------------------------------- predicates
Alive(p) == pc[p] \notin {"NotStarted", "Exited"}

\* process.kill(pid, 0) succeeds
isProcessRunning(pid) == pid \in Procs /\ Alive(pid)

\* setupCleanupHandlers has run (SIGINT, SIGTERM, exit, uncaughtException)
CleanupArmed(p) ==
    pc[p] \in {"Init", "Recording", "StopRequested", "Transcribing",
               "Delivering", "Failing"}

\* setupStopHandler has run and run() handed handleStop to it
StopArmed(p) ==
    pc[p] \in {"Recording", "StopRequested", "Transcribing", "Delivering",
               "Failing"}

\* process.on('SIGUSR1') fires the stop callback
StopTrigger_Timer(p) == TRUE
StopTrigger(p) == stopPending[p]

\* the pid file after ProcessManager.cleanup(): unlinked if it existed
PidAfterCleanup_Skip == pidFile
PidAfterCleanup == None

\* no transcribe() call is under way
NoResult == [how |-> "none", text |-> << >>, err |-> "none", at |-> 0]

CallIdle ==
    /\ provider = "none"
    /\ cfgRetries = << >>
    /\ audioEmpty = FALSE
    /\ maxRetries = 0
    /\ attempt = 0
    /\ tstate = "Idle"
    /\ outcomes = << >>
    /\ waits = << >>
    /\ result = NoResult

\* no provider selection is under way
EmptyEnv ==
    [TRANSCRIPTION_PROVIDER |-> "", PROVIDER |-> "", NEXARA_API_KEY |-> << >>,
     PALATINE_API_KEY |-> << >>]

NotSelected == [at |-> "Idle", name |-> "", how |-> "none", apiKey |-> << >>,
                made |-> "none", error |-> "none", listed |-> {},
                keys |-> {}]

\* static providers = { 'nexara': NexaraProvider }
StaticProviders == {"nexara"}

SelectionIdle ==
    /\ registry = StaticProviders
    /\ env = EmptyEnv
    /\ sel = NotSelected

\* no run() is followed on its own
RunsIdle ==
    /\ runAt = "Idle"
    /\ sessionNo = 0
    /\ captured = 0
    /\ audio = FALSE
    /\ played = << >>
    /\ soundOn = TRUE
    /\ recordings = {}
    /\ runExit = NotExited

\* a file that does not exist
NoFile == [exists |-> FALSE, lines |-> << >>]

\* no LogManager is followed on its own
LogsIdle ==
    /\ logFile = NoFile
    /\ oldFile = NoFile
    /\ maxSize = 0
    /\ logOn = FALSE

\* ------------------------------------------------------------------- Init
Init ==
    /\ apiKey \in BOOLEAN
    /\ pidFile = None
    /\ pc = [p \in Procs |-> "NotStarted"]
    /\ existingPid = [p \in Procs |-> None]
    /\ sess = [p \in Procs |-> "Idle"]
    /\ isRecording = [p \in Procs |-> FALSE]
    /\ rec = [p \in Procs |-> "none"]
    /\ killed = [p \in Procs |-> FALSE]
    /\ exitListener = [p \in Procs |-> FALSE]
    /\ audioLen = [p \in Procs |-> NoRead]
    /\ stopPending = [p \in Procs |-> FALSE]
    /\ exitCode = [p \in Procs |-> NotExited]
    /\ exitWhy = [p \in Procs |-> "none"]
    /\ branch = [p \in Procs |-> "none"]
    /\ sentStop = [p \in Procs |-> "none"]
    /\ wrote = [p \in Procs |-> FALSE]
    /\ removed = [p \in Procs |-> FALSE]
    /\ cleaned = [p \in Procs |-> FALSE]
    /\ fatal = [p \in Procs |-> "none"]
    /\ CallIdle
    /\ SelectionIdle
    /\ RunsIdle
    /\ LogsIdle

\* the process ends without the pid-file cleanup; its recorder object is
\* gone with it, a child still running stays behind as an orphan
ExitNow(p, code, why) ==
    /\ pc' = [pc EXCEPT ![p] = "Exited"]
    /\ exitCode' = [exitCode EXCEPT ![p] = code]
    /\ exitWhy' = [exitWhy EXCEPT ![p] = why]
    /\ stopPending' = [stopPending EXCEPT ![p] = FALSE]
    /\ isRecording' = [isRecording EXCEPT ![p] = FALSE]
    /\ killed' = [killed EXCEPT ![p] = FALSE]
    /\ exitListener' = [exitListener EXCEPT ![p] = FALSE]
    /\ rec' = [rec EXCEPT ![p] = IF @ = "running" THEN "running" ELSE "none"]

\* ProcessManager.cleanup() followed by process.exit(code)
CleanupAndExit(p, code, why) ==
    /\ ExitNow(p, code, why)
    /\ removed' = [removed EXCEPT ![p] = @ \/ (pidFile # None /\ PidAfterCleanup = None)]
    /\ pidFile' = PidAfterCleanup
    /\ cleaned' = [cleaned EXCEPT ![p] = TRUE]

\* --------------------------------------------------- index.js, invocation
\* the kernel hands out pids in increasing order
Start(p) ==
    /\ pc[p] = "NotStarted"
    /\ \A q \in Procs : q < p => pc[q] # "NotStarted"
    /\ pc' = [pc EXCEPT ![p] = "CheckExists"]
    /\ UNCHANGED << apiKey, pidFile, coord, sess, recorder, stopPending,
                    exitCode, exitWhy, wrote, removed, cleaned, fatal >>
    /\ UNCHANGED aside

\* ------------------------------------ ProcessManager.checkAndStopExisting
CheckExists(p) ==
    /\ pc[p] = "CheckExists"
    /\ IF pidFile = None
          THEN /\ pc' = [pc EXCEPT ![p] = "CreatePid"]
               /\ branch' = [branch EXCEPT ![p] = "nolock"]
          ELSE /\ pc' = [pc EXCEPT ![p] = "KillOrphans"]
               /\ UNCHANGED branch
    /\ UNCHANGED << apiKey, pidFile, existingPid, sentStop, sess, recorder,
                    stopPending, exitCode, exitWhy, wrote, removed, cleaned,
                    fatal >>
    /\ UNCHANGED aside

\* SIGTERM to every process whose command line matches arecord.*voice-input
killOrphanedRecordingProcesses(p) ==
    /\ pc[p] = "KillOrphans"
    /\ rec' = [q \in Procs |-> IF rec[q] = "running" THEN "exited" ELSE rec[q]]
    /\ pc' = [pc EXCEPT ![p] = "ReadPid"]
    /\ UNCHANGED << apiKey, pidFile, coord, sess, isRecording, killed,
                    exitListener, audioLen, stopPending, exitCode, exitWhy,
                    wrote, removed, cleaned, fatal >>
    /\ UNCHANGED aside

\* Content of the pid file that is not the decimal form of a pid: Text is
\* content without a leading digit (empty, "abc"), TextAfter(pid) is the
\* digits of pid followed by text ("12abc").
Text == -1
TextAfter(pid) == Text - pid
NotNumbers == {Text} \cup {TextAfter(pid) : pid \in Procs}

\* parseInt(pidStr): the leading digits, NaN when there are none
NaN == -1
parseInt(content) ==
    IF content = Text THEN NaN
    ELSE IF content < Text THEN Text - content
    ELSE content

\* readFileSync + parseInt; a vanished file throws into the outer catch
ReadPid_NoCatch(p) ==
    /\ pc[p] = "ReadPid"
    /\ IF pidFile = None
          THEN /\ pc' = [pc EXCEPT ![p] = "Exited"]
               /\ exitCode' = [exitCode EXCEPT ![p] = ExitError]
               /\ exitWhy' = [exitWhy EXCEPT ![p] = "fault"]
               /\ branch' = [branch EXCEPT ![p] = "error"]
               /\ UNCHANGED existingPid
          ELSE IF parseInt(pidFile) = NaN
          THEN /\ pc' = [pc EXCEPT ![p] = "UnlinkStale"]
               /\ branch' = [branch EXCEPT ![p] = "invalid"]
               /\ UNCHANGED << existingPid, exitCode, exitWhy >>
          ELSE /\ pc' = [pc EXCEPT ![p] = "Probe"]
               /\ existingPid' = [existingPid EXCEPT ![p] = parseInt(pidFile)]
               /\ UNCHANGED << branch, exitCode, exitWhy >>
    /\ UNCHANGED << apiKey, pidFile, sentStop, sess, recorder, stopPending,
                    wrote, removed, cleaned, fatal >>
    /\ UNCHANGED aside
ReadPid(p) ==
    /\ pc[p] = "ReadPid"
    /\ IF pidFile = None
          THEN /\ pc' = [pc EXCEPT ![p] = "CreatePid"]
               /\ branch' = [branch EXCEPT ![p] = "error"]
               /\ UNCHANGED existingPid
          ELSE IF parseInt(pidFile) = NaN
          THEN \* isNaN(existingPid): unlinkSync, return false
               /\ pc' = [pc EXCEPT ![p] = "UnlinkStale"]
               /\ branch' = [branch EXCEPT ![p] = "invalid"]
               /\ UNCHANGED existingPid
          ELSE /\ pc' = [pc EXCEPT ![p] = "Probe"]
               /\ existingPid' = [existingPid EXCEPT ![p] = parseInt(pidFile)]
               /\ UNCHANGED branch
    /\ UNCHANGED << apiKey, pidFile, sentStop, sess, recorder, stopPending,
                    exitCode, exitWhy, wrote, removed, cleaned, fatal >>
    /\ UNCHANGED aside

\* process.kill(pid, 0) inside isProcessRunning
ProbeResult(pid) == isProcessRunning(pid)

Probe(p) ==
    /\ pc[p] = "Probe"
    /\ IF ProbeResult(existingPid[p])
          THEN /\ pc' = [pc EXCEPT ![p] = "SendStop"]
               /\ branch' = [branch EXCEPT ![p] = "live"]
          ELSE /\ pc' = [pc EXCEPT ![p] = "UnlinkStale"]
               /\ branch' = [branch EXCEPT ![p] = "stale"]
    /\ UNCHANGED << apiKey, pidFile, existingPid, sentStop, sess, recorder,
                    stopPending, exitCode, exitWhy, wrote, removed, cleaned,
                    fatal >>
    /\ UNCHANGED aside

\* where main() continues once checkAndStopExisting returned true
AfterStopSent_FallThrough(p) ==
    /\ pc' = [pc EXCEPT ![p] = "CreatePid"]
    /\ UNCHANGED << exitCode, exitWhy >>
AfterStopSent_Rethrow(p) ==
    /\ pc' = [pc EXCEPT ![p] = "Exited"]
    /\ exitCode' = [exitCode EXCEPT ![p] = ExitError]
    /\ exitWhy' = [exitWhy EXCEPT ![p] = "relay"]
AfterStopSent(p) ==
    /\ pc' = [pc EXCEPT ![p] = "Exited"]
    /\ exitCode' = [exitCode EXCEPT ![p] = ExitOk]
    /\ exitWhy' = [exitWhy EXCEPT ![p] = "relay"]

\* process.kill(existingPid, 'SIGUSR1'), return true, process.exit(0)
SendStop(p) ==
    /\ pc[p] = "SendStop"
    /\ LET t == existingPid[p] IN
         /\ sentStop' = [sentStop EXCEPT ![p] =
                IF ~isProcessRunning(t) THEN "dead"
                ELSE IF StopArmed(t) THEN "armed" ELSE "unarmed"]
         \* without a listener Node treats SIGUSR1 as "start the inspector"
         /\ stopPending' = [stopPending EXCEPT ![t] =
                IF isProcessRunning(t) /\ StopArmed(t) THEN TRUE ELSE @]
    /\ AfterStopSent(p)
    /\ UNCHANGED << apiKey, pidFile, existingPid, branch, sess, recorder,
                    wrote, removed, cleaned, fatal >>
    /\ UNCHANGED aside

\* the pid file after unlinkSync(this.pidFile) on the stale or invalid branch
PidAfterUnlink_Keep == pidFile
PidAfterUnlink == None

\* unlinkSync of the stale or invalid file; ENOENT lands in the outer catch
UnlinkStale(p) ==
    /\ pc[p] = "UnlinkStale"
    /\ removed' = [removed EXCEPT ![p] = @ \/ pidFile # None]
    /\ pidFile' = PidAfterUnlink
    /\ pc' = [pc EXCEPT ![p] = "CreatePid"]
    /\ UNCHANGED << apiKey, coord, sess, recorder, stopPending, exitCode,
                    exitWhy, wrote, cleaned, fatal >>
    /\ UNCHANGED aside

\* ------------------------------------------- ProcessManager.createPidFile
createPidFile(p) ==
    /\ pc[p] = "CreatePid"
    /\ pidFile' = p
    /\ wrote' = [wrote EXCEPT ![p] = TRUE]
    /\ pc' = [pc EXCEPT ![p] = "Setup"]
    /\ UNCHANGED << apiKey, coord, sess, recorder, stopPending, exitCode,
                    exitWhy, removed, cleaned, fatal >>
    /\ UNCHANGED aside

\* setupCleanupHandlers, the NEXARA_API_KEY check, new VoiceInputApp
Setup(p) ==
    /\ pc[p] = "Setup"
    /\ IF apiKey
          THEN /\ pc' = [pc EXCEPT ![p] = "Init"]
               /\ UNCHANGED << pidFile, exitCode, exitWhy, removed, cleaned,
                               fatal, stopPending, recorder >>
          ELSE /\ CleanupAndExit(p, ExitError, "config")
               /\ fatal' = [fatal EXCEPT ![p] = "config"]
               /\ UNCHANGED audioLen
    /\ UNCHANGED << apiKey, coord, sess, wrote >>
    /\ UNCHANGED aside

\* ------------------------------------------------ VoiceInputApp.initialize
\* microphone or clipboard check fails: main's catch, cleanup, exit(1)
InitFail(p) ==
    /\ pc[p] = "Init"
    /\ CleanupAndExit(p, ExitError, "init")
    /\ fatal' = [fatal EXCEPT ![p] = "init"]
    /\ UNCHANGED << apiKey, coord, sess, wrote, audioLen >>
    /\ UNCHANGED aside

\* ------------- setupStopHandler, run, startRecordingAndWaitForStop, spawn
\* arecord is spawned and the session records
StartRecordingOk(p) ==
    /\ pc[p] = "Init"
    /\ pc' = [pc EXCEPT ![p] = "Recording"]
    /\ sess' = [sess EXCEPT ![p] = "Recording"]
    /\ isRecording' = [isRecording EXCEPT ![p] = TRUE]
    /\ rec' = [rec EXCEPT ![p] = "running"]
    /\ UNCHANGED << apiKey, pidFile, coord, killed, exitListener, audioLen,
                    stopPending, exitCode, exitWhy, wrote, removed, cleaned,
                    fatal >>
    /\ UNCHANGED aside

\* spawn throws synchronously: startRecording rejects, run() catches, plays
\* the error sound and rethrows
StartRecordingThrows(p) ==
    /\ pc[p] = "Init"
    /\ pc' = [pc EXCEPT ![p] = "Failing"]
    /\ sess' = [sess EXCEPT ![p] = "Failed"]
    /\ fatal' = [fatal EXCEPT ![p] = "capture"]
    /\ UNCHANGED << apiKey, pidFile, coord, recorder, stopPending, exitCode,
                    exitWhy, wrote, removed, cleaned >>
    /\ UNCHANGED aside

\* spawn fails with a run-time error (ENOENT, EAGAIN, EACCES): the child's
\* 'error' event comes on the next tick, after startRecording has already
\* called resolve(); its reject(error) is a no-op and run() keeps waiting
StartRecordingErrorEvent(p) ==
    /\ pc[p] = "Init"
    /\ pc' = [pc EXCEPT ![p] = "Recording"]
    /\ sess' = [sess EXCEPT ![p] = "Recording"]
    /\ isRecording' = [isRecording EXCEPT ![p] = FALSE]
    /\ rec' = [rec EXCEPT ![p] = "none"]
    /\ fatal' = [fatal EXCEPT ![p] = "capture"]
    /\ UNCHANGED << apiKey, pidFile, coord, killed, exitListener, audioLen,
                    stopPending, exitCode, exitWhy, wrote, removed, cleaned >>
    /\ UNCHANGED aside

\* stopRecording resolved null after reading len bytes (NoRead: no file was
\* read); run() returns without audio, main logs success, cleanup, exit(0)
NoAudioEnd(p, len) ==
    /\ CleanupAndExit(p, ExitOk, "noaudio")
    /\ sess' = [sess EXCEPT ![p] = "NoAudio"]
    /\ audioLen' = [audioLen EXCEPT ![p] = len]

\* a stop after the capture is over: stopRecording finds no recording in
\* progress and returns null, resolve(null) on the settled promise does nothing
LateStop_Cancel(p) == NoAudioEnd(p, NoRead)
LateStop_Again(p) ==
    /\ stopPending' = [stopPending EXCEPT ![p] = FALSE]
    /\ pc' = [pc EXCEPT ![p] = "Transcribing"]
    /\ sess' = [sess EXCEPT ![p] = "Transcribing"]
    /\ UNCHANGED << recorder, pidFile, exitCode, exitWhy, removed, cleaned >>
LateStop(p) ==
    /\ stopPending' = [stopPending EXCEPT ![p] = FALSE]
    /\ UNCHANGED << pc, sess, recorder, pidFile, exitCode, exitWhy, removed,
                    cleaned >>

\* ------------------- the SIGUSR1 listener: handleStop -> stopRecording()
OnSIGUSR1(p) ==
    /\ StopArmed(p)
    /\ StopTrigger(p)
    /\ CASE pc[p] = "Recording" /\ (~isRecording[p] \/ rec[p] = "none") ->
              \* "No recording in progress": resolve(null)
              NoAudioEnd(p, NoRead)
         [] pc[p] = "Recording" /\ isRecording[p] /\ rec[p] # "none" ->
              \* attach the 'exit' listener, then kill('SIGTERM'); kill()
              \* returns false once the child's exit has been processed
              /\ pc' = [pc EXCEPT ![p] = "StopRequested"]
              /\ sess' = [sess EXCEPT ![p] = "StopRequested"]
              /\ exitListener' = [exitListener EXCEPT ![p] = TRUE]
              /\ killed' = [killed EXCEPT ![p] = rec[p] \in {"running", "exited"}]
              /\ rec' = [rec EXCEPT ![p] = IF @ = "running" THEN "exited" ELSE @]
              /\ stopPending' = [stopPending EXCEPT ![p] = FALSE]
              /\ UNCHANGED << isRecording, audioLen, pidFile, exitCode,
                              exitWhy, removed, cleaned >>
         [] pc[p] = "StopRequested" /\ killed[p] ->
              \* second stop: recordingProcess.killed, so cleanup(null)
              NoAudioEnd(p, NoRead)
         [] pc[p] = "StopRequested" /\ ~killed[p] ->
              \* second stop on a child already gone: one more dead listener
              /\ stopPending' = [stopPending EXCEPT ![p] = FALSE]
              /\ UNCHANGED << pc, sess, recorder, pidFile, exitCode, exitWhy,
                              removed, cleaned >>
         [] pc[p] \in {"Transcribing", "Delivering", "Failing"} ->
              LateStop(p)
    /\ UNCHANGED << apiKey, coord, wrote, fatal >>
    /\ UNCHANGED aside

\* ------------------------------------------------- the arecord child process
\* arecord ends by itself (device error, end of input)
RecorderDies(p) ==
    /\ rec[p] = "running"
    /\ rec' = [rec EXCEPT ![p] = "exited"]
    /\ UNCHANGED << apiKey, pidFile, pc, coord, sess, isRecording, killed,
                    exitListener, audioLen, stopPending, exitCode, exitWhy,
                    wrote, removed, cleaned, fatal >>
    /\ UNCHANGED aside

\* lengths of the recorded file the 'exit' listener may read
AudioLens == {0, WavHeaderBytes, WavHeaderBytes + 1}

\* stopRecording's 'exit' listener: audio only if longer than the WAV header
AudioOf_AtLeast(len) == IF len >= WavHeaderBytes THEN "data" ELSE "null"
AudioOf(len) == IF len > WavHeaderBytes THEN "data" ELSE "null"

\* run(): the phase that follows a capture stop that returned audio
PhaseAfterCapture_Deliver == "Delivering"
PhaseAfterCapture == "Transcribing"

\* the owner's event loop emits the child's 'exit' event
RecorderExitEvent(p) ==
    /\ Alive(p)
    /\ rec[p] = "exited"
    /\ IF exitListener[p]
          THEN \E len \in AudioLens :
                 IF AudioOf(len) = "data"
                    THEN \* cleanup(audioData), resolve(audioData)
                         /\ isRecording' = [isRecording EXCEPT ![p] = FALSE]
                         /\ rec' = [rec EXCEPT ![p] = "none"]
                         /\ exitListener' = [exitListener EXCEPT ![p] = FALSE]
                         /\ killed' = [killed EXCEPT ![p] = FALSE]
                         /\ audioLen' = [audioLen EXCEPT ![p] = len]
                         /\ pc' = [pc EXCEPT ![p] = PhaseAfterCapture]
                         /\ sess' = [sess EXCEPT ![p] = PhaseAfterCapture]
                         /\ UNCHANGED << pidFile, exitCode, exitWhy,
                                         stopPending, removed, cleaned >>
                    ELSE \* cleanup(null), resolve(null)
                         NoAudioEnd(p, len)
          ELSE \* nobody listens: the event is dropped
               /\ rec' = [rec EXCEPT ![p] = "gone"]
               /\ UNCHANGED << pc, sess, isRecording, killed, exitListener,
                               audioLen, pidFile, exitCode, exitWhy, stopPending,
                               removed, cleaned >>
    /\ UNCHANGED << apiKey, coord, wrote, fatal >>
    /\ UNCHANGED aside

\* run() still awaits the stop promise, no child and no timer is left: the
\* event loop is empty, Node runs the 'exit' listeners and ends with status 0
Drain(p) ==
    /\ pc[p] \in {"Recording", "StopRequested"}
    /\ rec[p] \in {"none", "gone"}
    /\ CleanupAndExit(p, ExitOk, "drain")
    /\ UNCHANGED << apiKey, coord, sess, wrote, fatal, audioLen >>
    /\ UNCHANGED aside

\* ---------------------------------------- transcribeAudio, copyText, main
TranscribeOk(p) ==
    /\ pc[p] = "Transcribing"
    /\ pc' = [pc EXCEPT ![p] = "Delivering"]
    /\ sess' = [sess EXCEPT ![p] = "Delivering"]
    /\ UNCHANGED << apiKey, pidFile, coord, recorder, stopPending, exitCode,
                    exitWhy, wrote, removed, cleaned, fatal >>
    /\ UNCHANGED aside

TranscribeFail(p) ==
    /\ pc[p] = "Transcribing"
    /\ pc' = [pc EXCEPT ![p] = "Failing"]
    /\ sess' = [sess EXCEPT ![p] = "Failed"]
    /\ fatal' = [fatal EXCEPT ![p] = "transcription"]
    /\ UNCHANGED << apiKey, pidFile, coord, recorder, stopPending, exitCode,
                    exitWhy, wrote, removed, cleaned >>
    /\ UNCHANGED aside

\* copyText succeeded, run() returns, main: cleanup(), exit(0)
DeliverOk(p) ==
    /\ pc[p] = "Delivering"
    /\ CleanupAndExit(p, ExitOk, "complete")
    /\ sess' = [sess EXCEPT ![p] = "Completed"]
    /\ UNCHANGED << apiKey, coord, wrote, fatal, audioLen >>
    /\ UNCHANGED aside

DeliverFail(p) ==
    /\ pc[p] = "Delivering"
    /\ pc' = [pc EXCEPT ![p] = "Failing"]
    /\ sess' = [sess EXCEPT ![p] = "Failed"]
    /\ fatal' = [fatal EXCEPT ![p] = "delivery"]
    /\ UNCHANGED << apiKey, pidFile, coord, recorder, stopPending, exitCode,
                    exitWhy, wrote, removed, cleaned >>
    /\ UNCHANGED aside

\* run() rethrew after the error sound; main's catch: cleanup(), exit(1)
MainCatch(p) ==
    /\ pc[p] = "Failing"
    /\ CleanupAndExit(p, ExitError, "failed")
    /\ UNCHANGED << apiKey, coord, sess, wrote, fatal, audioLen >>
    /\ UNCHANGED aside

\* ------------------------------------------------- signals and faults
\* SIGINT or SIGTERM reaches a process that wrote the lock
TermSignal(p) ==
    /\ pc[p] = "Setup" \/ CleanupArmed(p)
    /\ IF CleanupArmed(p)
          THEN CleanupAndExit(p, ExitOk, "signal")
          ELSE \* no listener yet: the default action ends the process
               /\ ExitNow(p, ExitKilled, "signal")
               /\ UNCHANGED << pidFile, removed, cleaned >>
    /\ UNCHANGED << apiKey, coord, sess, wrote, fatal, audioLen >>
    /\ UNCHANGED aside

\* uncaughtException / unhandledRejection listener: cleanup(), exit(1)
Fault(p) ==
    /\ CleanupArmed(p)
    /\ CleanupAndExit(p, ExitError, "fault")
    /\ UNCHANGED << apiKey, coord, sess, wrote, fatal, audioLen >>
    /\ UNCHANGED aside

\* SIGKILL: the process is gone, nothing of it runs
HardKill(p) ==
    /\ pc[p] = "Setup" \/ CleanupArmed(p)
    /\ ExitNow(p, ExitKilled, "sigkill")
    /\ UNCHANGED << apiKey, pidFile, coord, sess, wrote, removed, cleaned,
                    fatal, audioLen >>
    /\ UNCHANGED aside

\* ------------------------------------------------------------------- Next
Next ==
    \E p \in Procs :
        \/ Start(p)
        \/ CheckExists(p)
        \/ killOrphanedRecordingProcesses(p)
        \/ ReadPid(p)
        \/ Probe(p)
        \/ SendStop(p)
        \/ UnlinkStale(p)
        \/ createPidFile(p)
        \/ Setup(p)
        \/ InitFail(p)
        \/ StartRecordingOk(p)
        \/ StartRecordingThrows(p)
        \/ StartRecordingErrorEvent(p)
        \/ OnSIGUSR1(p)
        \/ RecorderDies(p)
        \/ RecorderExitEvent(p)
        \/ Drain(p)
        \/ TranscribeOk(p)
        \/ TranscribeFail(p)
        \/ DeliverOk(p)
        \/ DeliverFail(p)
        \/ MainCatch(p)
        \/ TermSignal(p)
        \/ Fault(p)
        \/ HardKill(p)

Spec == Init /\ [][Next]_vars

\* ------------------------------------------- a session whose capture is over
\* Process 1 owns the lock and its capture stop has returned audio; the
\* invocation that relayed that stop has exited and is left out.  Every
\* other process is a further invocation of the command.
Owner1 == 1

InitStopped ==
    /\ apiKey = TRUE
    /\ pidFile = Owner1
    /\ pc = [p \in Procs |-> IF p = Owner1 THEN PhaseAfterCapture ELSE "NotStarted"]
    /\ existingPid = [p \in Procs |-> None]
    /\ sess = [p \in Procs |-> IF p = Owner1 THEN PhaseAfterCapture ELSE "Idle"]
    /\ isRecording = [p \in Procs |-> FALSE]
    /\ rec = [p \in Procs |-> "none"]
    /\ killed = [p \in Procs |-> FALSE]
    /\ exitListener = [p \in Procs |-> FALSE]
    /\ \E len \in AudioLens :
          /\ AudioOf(len) = "data"
          /\ audioLen = [p \in Procs |-> IF p = Owner1 THEN len ELSE NoRead]
    /\ stopPending = [p \in Procs |-> FALSE]
    /\ exitCode = [p \in Procs |-> NotExited]
    /\ exitWhy = [p \in Procs |-> "none"]
    /\ \E b \in {"nolock", "stale", "error"} :
          branch = [p \in Procs |-> IF p = Owner1 THEN b ELSE "none"]
    /\ sentStop = [p \in Procs |-> "none"]
    /\ wrote = [p \in Procs |-> p = Owner1]
    /\ removed = [p \in Procs |-> FALSE]
    /\ cleaned = [p \in Procs |-> FALSE]
    /\ fatal = [p \in Procs |-> "none"]
    /\ CallIdle
    /\ SelectionIdle
    /\ RunsIdle
    /\ LogsIdle

SpecStopped == InitStopped /\ [][Next]_vars

\* ------------------------------------- a lock file that holds no plain pid
\* The invocations start with a pid file left by something else: its content
\* is not a number.
InitInvalid ==
    /\ apiKey = TRUE
    /\ pidFile \in NotNumbers
    /\ pc = [p \in Procs |-> "NotStarted"]
    /\ existingPid = [p \in Procs |-> None]
    /\ sess = [p \in Procs |-> "Idle"]
    /\ isRecording = [p \in Procs |-> FALSE]
    /\ rec = [p \in Procs |-> "none"]
    /\ killed = [p \in Procs |-> FALSE]
    /\ exitListener = [p \in Procs |-> FALSE]
    /\ audioLen = [p \in Procs |-> NoRead]
    /\ stopPending = [p \in Procs |-> FALSE]
    /\ exitCode = [p \in Procs |-> NotExited]
    /\ exitWhy = [p \in Procs |-> "none"]
    /\ branch = [p \in Procs |-> "none"]
    /\ sentStop = [p \in Procs |-> "none"]
    /\ wrote = [p \in Procs |-> FALSE]
    /\ removed = [p \in Procs |-> FALSE]
    /\ cleaned = [p \in Procs |-> FALSE]
    /\ fatal = [p \in Procs |-> "none"]
    /\ CallIdle
    /\ SelectionIdle
    /\ RunsIdle
    /\ LogsIdle

SpecInvalid == InitInvalid /\ [][Next]_vars

\* ------------------------------------- an owner under repeated stop signals
\* Process 1 has written the lock, built the application and is about to start
\* the capture.  The invocations that relay stop signals to it are left out:
\* each of them contributes one SIGUSR1, at any time.
InitStops ==
    /\ apiKey = TRUE
    /\ pidFile = Owner1
    /\ pc = [p \in Procs |-> IF p = Owner1 THEN "Init" ELSE "NotStarted"]
    /\ existingPid = [p \in Procs |-> None]
    /\ sess = [p \in Procs |-> "Idle"]
    /\ isRecording = [p \in Procs |-> FALSE]
    /\ rec = [p \in Procs |-> "none"]
    /\ killed = [p \in Procs |-> FALSE]
    /\ exitListener = [p \in Procs |-> FALSE]
    /\ audioLen = [p \in Procs |-> NoRead]
    /\ stopPending = [p \in Procs |-> FALSE]
    /\ exitCode = [p \in Procs |-> NotExited]
    /\ exitWhy = [p \in Procs |-> "none"]
    /\ \E b \in {"nolock", "stale", "error"} :
          branch = [p \in Procs |-> IF p = Owner1 THEN b ELSE "none"]
    /\ sentStop = [p \in Procs |-> "none"]
    /\ wrote = [p \in Procs |-> p = Owner1]
    /\ removed = [p \in Procs |-> FALSE]
    /\ cleaned = [p \in Procs |-> FALSE]
    /\ fatal = [p \in Procs |-> "none"]
    /\ CallIdle
    /\ SelectionIdle
    /\ RunsIdle
    /\ LogsIdle

\* one more SIGUSR1 for a process whose listener is registered; a signal
\* already pending absorbs it
FurtherStop(p) ==
    /\ Alive(p)
    /\ StopArmed(p)
    /\ ~stopPending[p]
    /\ stopPending' = [stopPending EXCEPT ![p] = TRUE]
    /\ UNCHANGED << apiKey, pidFile, pc, coord, sess, recorder, exitCode,
                    exitWhy, wrote, removed, cleaned, fatal >>
    /\ UNCHANGED aside

NextStops ==
    \/ FurtherStop(Owner1)
    \/ StartRecordingOk(Owner1)
    \/ StartRecordingThrows(Owner1)
    \/ StartRecordingErrorEvent(Owner1)
    \/ OnSIGUSR1(Owner1)
    \/ RecorderDies(Owner1)
    \/ RecorderExitEvent(Owner1)
    \/ Drain(Owner1)
    \/ TranscribeOk(Owner1)
    \/ TranscribeFail(Owner1)
    \/ DeliverOk(Owner1)
    \/ DeliverFail(Owner1)
    \/ MainCatch(Owner1)
    \/ TermSignal(Owner1)
    \/ Fault(Owner1)
    \/ HardKill(Owner1)

SpecStops == InitStops /\ [][NextStops]_vars

\* ============================================ transcribe(audioBuffer)
\* The three classes with a transcribe() method.  A step is one turn of the
\* for loop's control: the loop test, the request, the wait before a retry.
Providers == {"NexaraProvider", "NexaraTranscriber", "PalatineProvider"}

MaxRetriesCfg == 3
MaxTextLen == 2

NexaraDefaultRetries == 10
PalatineDefaultRetries == 3
NexaraDelayMs == 1000
PalatineDelayMs == 2000

\* config.maxRetries (NexaraTranscriber: the second argument)
RetryConfigs == {<< >>} \cup {<< n >> : n \in -1..MaxRetriesCfg}

\* response.data.text: a string over a blank and a letter; "" stands for a
\* missing text as well, both are falsy
Chars == {" ", "a"}
Texts == UNION {[1..n -> Chars] : n \in 0..MaxTextLen}

\* the ways axios.post rejects
\*   tls      message with 'SSL routines', 'decryption failed', 'bad record mac'
\*   network  no response (ECONNRESET, ENOTFOUND, ...), error.request set
\*   timeout  code ECONNABORTED, message 'timeout of ...ms exceeded'
\*   http4xx, http5xx  error.response with that status
RequestErrors == {"tls", "network", "timeout", "http4xx", "http5xx"}

RECURSIVE TrimLeft(_)
TrimLeft(t) == IF t # << >> /\ Head(t) = " " THEN TrimLeft(Tail(t)) ELSE t

RECURSIVE TrimRight(_)
TrimRight(t) ==
    IF t # << >> /\ t[Len(t)] = " "
       THEN TrimRight(SubSeq(t, 1, Len(t) - 1))
       ELSE t

\* String.prototype.trim
trim(t) == TrimRight(TrimLeft(t))

\* !transcription || transcription.trim().length === 0
IsEmptyResult(t) == t = << >> \/ Len(trim(t)) = 0

DefaultRetries(prov) ==
    IF prov = "PalatineProvider" THEN PalatineDefaultRetries
                                 ELSE NexaraDefaultRetries

\* the constructors' config.maxRetries || default; NexaraTranscriber's
\* default parameter replaces undefined only
EffectiveRetries(prov, cfg) ==
    IF cfg = << >> THEN DefaultRetries(prov)
    ELSE IF prov = "NexaraTranscriber" THEN cfg[1]
    ELSE IF cfg[1] = 0 THEN DefaultRetries(prov)
    ELSE cfg[1]

isSSLError(kind) == kind = "tls"
isTimeoutError(kind) == kind = "timeout"
isServerError(kind) == kind = "http5xx"

\* the catch block's retry test
ShouldRetry_AnyError(prov, kind, n, max) == n < max
ShouldRetry(prov, kind, n, max) ==
    IF prov = "PalatineProvider"
       THEN (isTimeoutError(kind) \/ isServerError(kind)) /\ n < max
       ELSE isSSLError(kind) /\ n < max

\* setTimeout(resolve, delay * attempt)
RetryDelay_Flat(prov, n) ==
    IF prov = "PalatineProvider" THEN PalatineDelayMs ELSE NexaraDelayMs
RetryDelay(prov, n) ==
    (IF prov = "PalatineProvider" THEN PalatineDelayMs ELSE NexaraDelayMs) * n

\* the arguments and the configuration of the call
CallStarts ==
    /\ provider \in Providers
    /\ cfgRetries \in RetryConfigs
    /\ audioEmpty \in BOOLEAN
    /\ maxRetries = EffectiveRetries(provider, cfgRetries)
    /\ attempt = 0
    /\ tstate = "Entry"
    /\ outcomes = << >>
    /\ waits = << >>
    /\ result = NoResult

\* the audio buffer check, then let attempt = 1
Enter ==
    /\ tstate = "Entry"
    /\ IF audioEmpty
          THEN /\ tstate' = "Threw"
               /\ result' = [NoResult EXCEPT !.how = "error", !.err = "noaudio"]
               /\ UNCHANGED attempt
          ELSE /\ tstate' = "LoopTest"
               /\ attempt' = 1
               /\ UNCHANGED result
    /\ UNCHANGED << provider, cfgRetries, audioEmpty, maxRetries, outcomes,
                    waits >>
    /\ UNCHANGED << invocations, selection, runs, logs >>

\* attempt <= maxRetries; past the loop the async function ends without a
\* return statement and resolves with undefined
LoopTest ==
    /\ tstate = "LoopTest"
    /\ IF attempt <= maxRetries
          THEN /\ tstate' = "Request"
               /\ UNCHANGED result
          ELSE /\ tstate' = "Returned"
               /\ result' = [NoResult EXCEPT !.how = "undefined", !.at = attempt]
    /\ UNCHANGED << provider, cfgRetries, audioEmpty, maxRetries, attempt,
                    outcomes, waits >>
    /\ UNCHANGED << invocations, selection, runs, logs >>

\* the catch block with the error of this attempt
Catch(kind) ==
    IF ShouldRetry(provider, kind, attempt, maxRetries)
       THEN /\ waits' = Append(waits, RetryDelay(provider, attempt))
            /\ tstate' = "Backoff"
            /\ UNCHANGED result
       ELSE \* throw error
            /\ tstate' = "Threw"
            /\ result' = [NoResult EXCEPT !.how = "error", !.err = kind,
                                          !.at = attempt]
            /\ UNCHANGED waits

\* axios.post resolves
RequestAnswered ==
    /\ tstate = "Request"
    /\ \E t \in Texts :
          IF IsEmptyResult(t)
             THEN \* throw new Error('Empty transcription result'), caught below
                  /\ outcomes' = Append(outcomes, "empty")
                  /\ Catch("empty")
             ELSE /\ outcomes' = Append(outcomes, "text")
                  /\ tstate' = "Returned"
                  /\ result' = [NoResult EXCEPT !.how = "text", !.text = trim(t),
                                                !.at = attempt]
                  /\ UNCHANGED waits
    /\ UNCHANGED << provider, cfgRetries, audioEmpty, maxRetries, attempt >>
    /\ UNCHANGED << invocations, selection, runs, logs >>

\* axios.post rejects
RequestFails ==
    /\ tstate = "Request"
    /\ \E kind \in RequestErrors :
          /\ outcomes' = Append(outcomes, kind)
          /\ Catch(kind)
    /\ UNCHANGED << provider, cfgRetries, audioEmpty, maxRetries, attempt >>
    /\ UNCHANGED << invocations, selection, runs, logs >>

\* the timer fires: continue, attempt++
BackoffDone ==
    /\ tstate = "Backoff"
    /\ attempt' = attempt + 1
    /\ tstate' = "LoopTest"
    /\ UNCHANGED << provider, cfgRetries, audioEmpty, maxRetries, outcomes,
                    waits, result >>
    /\ UNCHANGED << invocations, selection, runs, logs >>

NextCall == Enter \/ LoopTest \/ RequestAnswered \/ RequestFails \/ BackoffDone

\* the session variables rest at their initial values
SessionsIdle ==
    /\ apiKey = TRUE
    /\ pidFile = None
    /\ pc = [p \in Procs |-> "NotStarted"]
    /\ existingPid = [p \in Procs |-> None]
    /\ sess = [p \in Procs |-> "Idle"]
    /\ isRecording = [p \in Procs |-> FALSE]
    /\ rec = [p \in Procs |-> "none"]
    /\ killed = [p \in Procs |-> FALSE]
    /\ exitListener = [p \in Procs |-> FALSE]
    /\ audioLen = [p \in Procs |-> NoRead]
    /\ stopPending = [p \in Procs |-> FALSE]
    /\ exitCode = [p \in Procs |-> NotExited]
    /\ exitWhy = [p \in Procs |-> "none"]
    /\ branch = [p \in Procs |-> "none"]
    /\ sentStop = [p \in Procs |-> "none"]
    /\ wrote = [p \in Procs |-> FALSE]
    /\ removed = [p \in Procs |-> FALSE]
    /\ cleaned = [p \in Procs |-> FALSE]
    /\ fatal = [p \in Procs |-> "none"]

InitCall ==
    SessionsIdle /\ CallStarts /\ SelectionIdle /\ RunsIdle /\ LogsIdle

SpecCall == InitCall /\ [][NextCall]_vars

\* ========================================== ProviderFactory.autoDetect(env)
\* values of TRANSCRIPTION_PROVIDER and PROVIDER; "" stands for unset
ProviderNames == {"", "nexara", " Nexara ", "palatine", "whisper"}

\* providerName.toLowerCase().trim() on those values
Normalize(n) == IF n = " Nexara " THEN "nexara" ELSE n

\* the classes of providers/index.js by the name they register under
ProviderClass(n) ==
    IF n = "nexara" THEN "NexaraProvider"
    ELSE IF n = "palatine" THEN "PalatineProvider"
    ELSE "none"

\* validateConfig of both classes: apiKey is a string, not empty after trim
validateConfig(key) == key # << >> /\ Len(trim(key)) # 0

\* getRequirements().configKeys of the class registered under the name
RequiredKeys(n) ==
    IF n = "nexara" THEN {"NEXARA_API_KEY"}
    ELSE IF n = "palatine" THEN {"PALATINE_API_KEY"}
    ELSE {}

\* env.TRANSCRIPTION_PROVIDER || env.PROVIDER
ExplicitName_KeyFirst(e) ==
    IF e.NEXARA_API_KEY # << >> THEN ""
    ELSE IF e.TRANSCRIPTION_PROVIDER # "" THEN e.TRANSCRIPTION_PROVIDER
    ELSE e.PROVIDER
ExplicitName(e) ==
    IF e.TRANSCRIPTION_PROVIDER # "" THEN e.TRANSCRIPTION_PROVIDER
                                    ELSE e.PROVIDER

SelectionStarts ==
    /\ env \in [TRANSCRIPTION_PROVIDER : ProviderNames \ {"palatine"},
                 PROVIDER : {"", "nexara", "palatine"},
                 NEXARA_API_KEY : Texts,
                 PALATINE_API_KEY : {<< >>, << "a" >>}]
    /\ registry = StaticProviders
    /\ sel = [NotSelected EXCEPT !.at = "Start"]

\* ProviderFactory.register('palatine', PalatineProvider) before the selection
register ==
    /\ sel.at = "Start"
    /\ "palatine" \notin registry
    /\ registry' = registry \cup {Normalize("palatine")}
    /\ UNCHANGED << env, sel, invocations, call, runs, logs >>

\* autoDetect up to the call of _buildConfigFromEnv or create, or its throw
autoDetect ==
    /\ sel.at = "Start"
    /\ LET providerName == ExplicitName(env) IN
         IF providerName # ""
            THEN sel' = [sel EXCEPT !.at = "BuildConfig", !.how = "explicit",
                                    !.name = providerName]
            ELSE IF env.NEXARA_API_KEY # << >>
                    THEN sel' = [sel EXCEPT !.at = "Create", !.how = "detected",
                                            !.name = "nexara",
                                            !.apiKey = env.NEXARA_API_KEY]
                    ELSE \* 'No transcription provider configured. ...'
                         sel' = [sel EXCEPT !.at = "Failed",
                                            !.error = "notConfigured",
                                            !.listed = registry]
    /\ UNCHANGED << registry, env, invocations, call, runs, logs >>

\* configMaps[normalizedName] || {}
buildConfigFromEnv ==
    /\ sel.at = "BuildConfig"
    /\ sel' = [sel EXCEPT !.at = "Create",
                          !.apiKey = IF Normalize(sel.name) = "nexara"
                                        THEN env.NEXARA_API_KEY ELSE << >>]
    /\ UNCHANGED << registry, env, invocations, call, runs, logs >>

\* create(providerName, config) up to new ProviderClass(config)
create_NoValidate ==
    /\ sel.at = "Create"
    /\ sel' = [sel EXCEPT !.at = "Construct"]
    /\ UNCHANGED << registry, env, invocations, call, runs, logs >>
create ==
    /\ sel.at = "Create"
    /\ IF Normalize(sel.name) \notin registry
          THEN \* 'Unknown transcription provider ... Available providers: ...'
               sel' = [sel EXCEPT !.at = "Failed", !.error = "unknown",
                                  !.listed = registry]
          ELSE IF ~validateConfig(sel.apiKey)
                  THEN \* 'Invalid configuration for ... Required keys: ...'
                       sel' = [sel EXCEPT !.at = "Failed", !.error = "invalid",
                                          !.keys = RequiredKeys(
                                                      Normalize(sel.name))]
                  ELSE sel' = [sel EXCEPT !.at = "Construct"]
    /\ UNCHANGED << registry, env, invocations, call, runs, logs >>

\* the constructor: 'API key is required' if config.apiKey is falsy
construct ==
    /\ sel.at = "Construct"
    /\ IF sel.apiKey = << >>
          THEN sel' = [sel EXCEPT !.at = "Failed", !.error = "invalid"]
          ELSE sel' = [sel EXCEPT !.at = "Done",
                                  !.made = ProviderClass(Normalize(sel.name))]
    /\ UNCHANGED << registry, env, invocations, call, runs, logs >>

NextSelect ==
    register \/ autoDetect \/ buildConfigFromEnv \/ create \/ construct

InitSelect ==
    SessionsIdle /\ CallIdle /\ SelectionStarts /\ RunsIdle /\ LogsIdle

SpecSelect == InitSelect /\ [][NextSelect]_vars

\* ------------------------------------- VoiceInputApp.run, session by session
\* the sessions followed one after the other
MaxSessions == 6

\* "Automatic recording backup with cleanup (keeps last 5)"
KeepBackups == 5

\* what a step of run() leaves alone
besideRuns == << invocations, call, selection, logs >>

\* playSound(soundFile): nothing when disabled, else spawn('paplay', ...)
Spawn(event) ==
    IF soundOn THEN Append(played, [event |-> event, st |-> "paplay"])
               ELSE played

\* the promise of the latest playSound call is resolved
Resolved ==
    \/ ~soundOn
    \/ played # << >> /\ played[Len(played)].st = "closed"

RunsStart ==
    /\ runAt = "Idle"
    /\ sessionNo = 0
    /\ captured = 0
    /\ audio = FALSE
    /\ played = << >>
    /\ soundOn \in BOOLEAN
    /\ recordings = {}
    /\ runExit = NotExited

\* a new invocation: run() up to audioRecorder.startRecording()
RunStart ==
    /\ runAt = "Idle" \/ runExit # NotExited
    /\ sessionNo < MaxSessions
    /\ sessionNo' = sessionNo + 1
    /\ runAt' = "Starting"
    /\ audio' = FALSE
    /\ played' = << >>
    /\ runExit' = NotExited
    /\ UNCHANGED << captured, soundOn, recordings, besideRuns >>

\* emit('recordingStarted'): playStartRecording(), not awaited
RecordingStarted ==
    /\ runAt = "Starting"
    /\ runAt' = "Recording"
    /\ played' = Spawn("start")
    /\ UNCHANGED << sessionNo, captured, audio, soundOn, recordings, runExit,
                    besideRuns >>

\* startRecording() rejects: the catch of run() awaits playError()
RecordingStartFails ==
    /\ runAt = "Starting"
    /\ runAt' = "RunCatch"
    /\ played' = Spawn("error")
    /\ UNCHANGED << sessionNo, captured, audio, soundOn, recordings, runExit,
                    besideRuns >>

\* stopRecording() yields audio: emit('recordingStopped') plays the end
\* sound unawaited, run() logs RECORDING_SUCCESS and calls transcribeAudio
StopWithAudio ==
    /\ runAt = "Recording"
    /\ runAt' = "Transcribing"
    /\ audio' = TRUE
    /\ captured' = captured + 1
    /\ played' = Spawn("end")
    /\ UNCHANGED << sessionNo, soundOn, recordings, runExit, besideRuns >>

\* stopRecording() yields null: run() returns, main calls process.exit(0)
StopNoAudio ==
    /\ runAt = "Recording"
    /\ runAt' = "Empty"
    /\ played' = Spawn("end")
    /\ runExit' = ExitOk
    /\ UNCHANGED << sessionNo, captured, audio, soundOn, recordings,
                    besideRuns >>

\* transcriber.transcribe resolves: copyText calls clipboardManager.copyText
TranscribeReturns ==
    /\ runAt = "Transcribing"
    /\ runAt' = "Copying"
    /\ UNCHANGED << sessionNo, captured, audio, played, soundOn, recordings,
                    runExit, besideRuns >>

\* transcriber.transcribe rejects: the catch of transcribeAudio awaits
\* playError()
TranscribeThrows ==
    /\ runAt = "Transcribing"
    /\ runAt' = "TranscribeCatch"
    /\ played' = Spawn("error")
    /\ UNCHANGED << sessionNo, captured, audio, soundOn, recordings, runExit,
                    besideRuns >>

\* clipboardManager.copyText resolves: copyText awaits playTextReady()
CopyReturns ==
    /\ runAt = "Copying"
    /\ runAt' = "TextReady"
    /\ played' = Spawn("textReady")
    /\ UNCHANGED << sessionNo, captured, audio, soundOn, recordings, runExit,
                    besideRuns >>

\* clipboardManager.copyText rejects: the catch of copyText awaits playError()
CopyThrows ==
    /\ runAt = "Copying"
    /\ runAt' = "CopyCatch"
    /\ played' = Spawn("error")
    /\ UNCHANGED << sessionNo, captured, audio, soundOn, recordings, runExit,
                    besideRuns >>

\* await playTextReady() is over: CLIPBOARD_SUCCESS, SESSION_COMPLETE, run()
\* returns and main calls process.exit(0)
TextReadyPlayed ==
    /\ runAt = "TextReady"
    /\ Resolved
    /\ runAt' = "Completed"
    /\ runExit' = ExitOk
    /\ UNCHANGED << sessionNo, captured, audio, played, soundOn, recordings,
                    besideRuns >>

\* await playError() in transcribeAudio or copyText is over: the error is
\* thrown on to the catch of run(), which awaits playError() again
InnerErrorPlayed ==
    /\ runAt \in {"TranscribeCatch", "CopyCatch"}
    /\ Resolved
    /\ runAt' = "RunCatch"
    /\ played' = Spawn("error")
    /\ UNCHANGED << sessionNo, captured, audio, soundOn, recordings, runExit,
                    besideRuns >>

\* await playError() in run() is over: the error is thrown on to main, which
\* calls process.exit(1)
OuterErrorPlayed ==
    /\ runAt = "RunCatch"
    /\ Resolved
    /\ runAt' = "Failed"
    /\ runExit' = ExitError
    /\ UNCHANGED << sessionNo, captured, audio, played, soundOn, recordings,
                    besideRuns >>

\* 'close' of paplay or of the fallback player: resolve()
SoundClose(i) ==
    /\ runExit = NotExited
    /\ played[i].st \in {"paplay", "fallback"}
    /\ played' = [played EXCEPT ![i].st = "closed"]
    /\ UNCHANGED << runAt, sessionNo, captured, audio, soundOn, recordings,
                    runExit, besideRuns >>

\* 'error' of paplay: spawn mpg123 or aplay; 'error' of that one: resolve()
SoundError(i) ==
    /\ runExit = NotExited
    /\ played[i].st \in {"paplay", "fallback"}
    /\ played' = [played EXCEPT ![i].st =
                     IF @ = "paplay" THEN "fallback" ELSE "closed"]
    /\ UNCHANGED << runAt, sessionNo, captured, audio, soundOn, recordings,
                    runExit, besideRuns >>

\* the steps of the session itself
PipelineStep ==
    \/ RecordingStarted \/ RecordingStartFails
    \/ StopWithAudio \/ StopNoAudio
    \/ TranscribeReturns \/ TranscribeThrows
    \/ CopyReturns \/ CopyThrows
    \/ TextReadyPlayed \/ InnerErrorPlayed \/ OuterErrorPlayed

\* the events of the sound subprocesses
SoundStep ==
    \E i \in 1..Len(played) : SoundClose(i) \/ SoundError(i)

NextRuns == RunStart \/ PipelineStep \/ SoundStep

InitRuns ==
    SessionsIdle /\ CallIdle /\ SelectionIdle /\ RunsStart /\ LogsIdle

SpecRuns == InitRuns /\ [][NextRuns]_vars

\* ------------------------------------------------ LogManager, call by call
\* the largest options.maxSize and the longest line, in units of the model
MaxLogSize == 3
MaxLineLen == 2

\* what a LogManager call leaves alone
besideLogs == << invocations, call, selection, runs >>

\* the lines log() appends, by their length
Entries == {[kind |-> "entry", len |-> n] : n \in 1..MaxLineLen}

\* '[...] INFO: Log rotated (size: ... bytes)'
RotationNote == [kind |-> "rotated", len |-> 1]

\* '[...] INFO: Logs cleared'
ClearedNote == [kind |-> "cleared", len |-> 1]

\* a file with the given lines
FileOf(lines) == [exists |-> TRUE, lines |-> lines]

\* fs.statSync(path).size
RECURSIVE Size(_)
Size(lines) ==
    IF lines = << >> THEN 0 ELSE Head(lines).len + Size(Tail(lines))

\* rotateIfNeeded: the log exists and stats.size >= this.options.maxSize
NeedsRotation_Over(file, max) == file.exists /\ Size(file.lines) > max
NeedsRotation(file, max) == file.exists /\ Size(file.lines) >= max

\* the files a LogManager may find when it is constructed
LogsStart ==
    /\ logFile \in {NoFile} \cup {FileOf(<< >>)}
                   \cup {FileOf(<< e >>) : e \in Entries}
                   \cup {FileOf(<< e, f >>) : e, f \in Entries}
    /\ oldFile \in {NoFile} \cup {FileOf(<< e >>) : e \in Entries}
    /\ maxSize \in 0..MaxLogSize
    /\ logOn \in BOOLEAN

\* log(level, message): rotateIfNeeded(), then appendFileSync
log ==
    /\ \E e \in Entries :
          IF ~logOn
             THEN UNCHANGED << logFile, oldFile >>
             ELSE IF NeedsRotation(logFile, maxSize)
                     THEN \* unlink .old if there, rename the log to .old,
                          \* write the note to a new log, append the entry
                          /\ oldFile' = logFile
                          /\ logFile' = FileOf(<< RotationNote, e >>)
                     ELSE /\ logFile' = FileOf(Append(logFile.lines, e))
                          /\ UNCHANGED oldFile
    /\ UNCHANGED << maxSize, logOn, besideLogs >>

\* clearLogs(): unlink both files, then this.info('Logs cleared')
clearLogs ==
    /\ oldFile' = NoFile
    /\ logFile' = IF logOn THEN FileOf(<< ClearedNote >>) ELSE NoFile
    /\ UNCHANGED << maxSize, logOn, besideLogs >>

NextLog == log \/ clearLogs

InitLog ==
    SessionsIdle /\ CallIdle /\ SelectionIdle /\ RunsIdle /\ LogsStart

SpecLog == InitLog /\ [][NextLog]_vars

\* ================================================================ claims

\* a live process that wrote the pid file: the owner of a session
Owner(p) == Alive(p) /\ wrote[p]

\* C1: mutual exclusion - at no instant are two live processes both owners
\* of a session, whatever the interleaving of the invocations.
C1_MutualExclusion ==
    \A p, q \in Procs : p # q => ~(Owner(p) /\ Owner(q))

\* C2: an invocation whose inspection found the lock naming a live pid calls
\* kill(pid, SIGUSR1), exits with status 0 and neither writes nor removes
\* the pid file.
C2_LiveLockRelays ==
    \A p \in Procs :
        branch[p] = "live" =>
            /\ ~wrote[p]
            /\ ~removed[p]
            /\ ~cleaned[p]
            /\ pc[p] \in {"SendStop", "Exited"}
            /\ pc[p] = "Exited" =>
                   /\ exitCode[p] = ExitOk
                   /\ exitWhy[p] = "relay"
                   /\ sentStop[p] # "none"

C2_Witness ==
    \E p \in Procs :
        /\ branch[p] = "live"
        /\ pc[p] = "Exited"
        /\ sentStop[p] = "armed"
        /\ pidFile = existingPid[p]

\* C3: an invocation that found the lock naming a dead pid removes that
\* lock, sends no stop signal, never leaves by the relay exit and goes on to
\* write its own pid.
C3_StaleLockRecovery ==
    \A p \in Procs :
        branch[p] = "stale" =>
            /\ sentStop[p] = "none"
            /\ exitWhy[p] # "relay"
            /\ pc[p] # "UnlinkStale" => pidFile # existingPid[p]
            /\ pc[p] \notin {"UnlinkStale", "CreatePid"} => wrote[p]

C3_Witness ==
    \E p \in Procs :
        /\ branch[p] = "stale"
        /\ removed[p]
        /\ pc[p] = "Recording"
        /\ pidFile = p

\* C4: whenever an invocation sends the stop signal to a live owner, that
\* owner has armed its stop handler and begun Recording.
C4_StopOnlyAfterArmed ==
    \A p \in Procs : sentStop[p] # "unarmed"

\* C5: an owner that got the stop signal in Recording is never stuck in
\* StopRequested: the child's exit event that hands over the capture result
\* is still to come.
C5_StopRequestedResolves ==
    \A p \in Procs :
        pc[p] = "StopRequested" => (exitListener[p] /\ rec[p] = "exited")

\* C6: a session goes from Recording to StopRequested only in a step in
\* which the armed SIGUSR1 listener consumes a delivered stop signal.
C6_StopOnlyBySignal ==
    [][\A p \in Procs :
          (sess[p] = "Recording" /\ sess'[p] = "StopRequested") =>
              (StopArmed(p) /\ stopPending[p] /\ ~stopPending'[p])]_vars

C6_Witness ==
    \E p \in Procs : sess[p] = "StopRequested" /\ killed[p]

\* C7: an owner that ends (other than by SIGKILL) after its session reached
\* Completed or Failed has run cleanup() and the pid file no longer names it.
C7_TerminalReleasesLock ==
    \A p \in Procs :
        (/\ pc[p] = "Exited"
         /\ sess[p] \in {"Completed", "Failed", "NoAudio"}
         /\ exitWhy[p] # "sigkill") =>
            (cleaned[p] /\ pidFile # p)

C7_Witness ==
    \E p, q \in Procs :
        /\ pc[p] = "Exited" /\ sess[p] = "Completed" /\ removed[p]
        /\ pc[q] = "Exited" /\ exitWhy[q] = "relay"

\* C8: an owner ended by SIGINT, SIGTERM or an unhandled fault after it
\* wrote the lock has removed the lock before exiting.
C8_SignalReleasesLock ==
    \A p \in Procs :
        (pc[p] = "Exited" /\ wrote[p] /\ exitWhy[p] \in {"signal", "fault"})
            => cleaned[p]

\* C9: an invocation that ends with a configuration error never created the
\* pid file.
C9_ConfigErrorBeforeLock ==
    \A p \in Procs : fatal[p] = "config" => ~wrote[p]

\* C10: exit status 0 after a clean completion or a stop relay, and status 1
\* whenever the process met a fatal error in capture, transcription or
\* configuration and ended of its own accord.
C10_ExitStatus ==
    \A p \in Procs :
        pc[p] = "Exited" =>
            /\ exitWhy[p] \in {"complete", "relay"} => exitCode[p] = ExitOk
            /\ (/\ fatal[p] \in {"capture", "transcription", "config"}
                /\ exitWhy[p] \notin {"signal", "fault", "sigkill"})
                   => exitCode[p] = ExitError

\* the step in which the capture stop hands its result to run()
StopReturned(p) ==
    /\ sess[p] \in {"Recording", "StopRequested"}
    /\ sess'[p] \notin {"Recording", "StopRequested"}

\* C11: when the capture stop returns no audio (no file read, or a file not
\* longer than the 44-byte WAV header) the session ends in that very step,
\* straight from Recording or StopRequested, so without a call of the
\* provider or the clipboard; no error is raised and the exit status is 0.
C11_NoAudioEndsQuietly ==
    [][\A p \in Procs :
          (StopReturned(p) /\ audioLen'[p] <= WavHeaderBytes) =>
              /\ sess'[p] = "NoAudio"
              /\ pc'[p] = "Exited"
              /\ exitCode'[p] = ExitOk
              /\ exitWhy'[p] = "noaudio"
              /\ fatal'[p] = fatal[p]
              /\ cleaned'[p]]_vars

C11_Witness ==
    \E p \in Procs :
        /\ sess[p] = "NoAudio"
        /\ audioLen[p] = WavHeaderBytes
        /\ exitCode[p] = ExitOk

\* the arecord child of the session is alive or its result is not yet read
CaptureInProgress(p) ==
    isRecording[p] \/ exitListener[p] \/ rec[p] \in {"running", "exited"}

\* C12: the phases of a session are sequential - transcription starts only
\* in the step in which the capture stop returned audio, delivery starts only
\* in a step that ends a successful transcription, and while the session is
\* transcribing or delivering no capture is in progress.
C12_PhasesSequential ==
    /\ [](\A p \in Procs :
             sess[p] \in {"Transcribing", "Delivering"} =>
                 /\ ~CaptureInProgress(p)
                 /\ audioLen[p] > WavHeaderBytes)
    /\ [][\A p \in Procs :
             /\ (sess'[p] = "Transcribing" /\ sess[p] # "Transcribing") =>
                    (sess[p] = "StopRequested" /\ AudioOf(audioLen'[p]) = "data")
             /\ (sess'[p] = "Delivering" /\ sess[p] # "Delivering") =>
                    (sess[p] = "Transcribing" /\ fatal'[p] = fatal[p])]_vars

C12_Witness ==
    \E p \in Procs :
        /\ sess[p] = "Completed"
        /\ audioLen[p] > WavHeaderBytes
        /\ rec[p] = "none"

\* C13: a stop signal that reaches the owner while it is Transcribing or
\* Delivering cancels nothing - every step the owner takes with the signal
\* pending is a step it could take without it (on to the next phase, a
\* failure of the phase, or an end by SIGINT/SIGTERM/fault/SIGKILL), the step
\* that handles the signal changes nothing of session, recorder or pid file,
\* no capture starts, and the invocation that sent the signal writes no lock.
C13_NoLateCancellation ==
    /\ [](\A q \in Procs : sentStop[q] # "none" => ~wrote[q])
    /\ [][\A p \in Procs :
             (pc[p] \in {"Transcribing", "Delivering"} /\ stopPending[p]) =>
                 /\ rec'[p] = "none" /\ ~isRecording'[p]
                 /\ sess'[p] \in (IF sess[p] = "Transcribing"
                                    THEN {"Transcribing", "Delivering", "Failed"}
                                    ELSE {"Delivering", "Completed", "Failed"})
                 /\ exitWhy'[p] \in {"none", "complete", "signal", "fault",
                                      "sigkill"}
                 /\ (~stopPending'[p] /\ pc'[p] # "Exited") =>
                        /\ pc'[p] = pc[p] /\ sess'[p] = sess[p]
                        /\ fatal'[p] = fatal[p]
                        /\ pidFile' = pidFile]_vars

\* the further invocation's signal was delivered and the owner's listener
\* has handled it: the owner is still delivering
C13_Witness ==
    \E p, q \in Procs :
        /\ pc[p] = "Delivering"
        /\ ~stopPending[p]
        /\ sentStop[q] = "armed"
        /\ existingPid[q] = p
        /\ exitWhy[q] = "relay"

\* ------------------------------------------------- claims on transcribe()
CallEnded == tstate \in {"Returned", "Threw"}

\* the transient failures of the network/TLS layer
TransientKinds == {"tls", "network"}

OnlyTransientSoFar == \A i \in DOMAIN outcomes : outcomes[i] \in TransientKinds

\* C14: retry determinism - a call whose requests so far all failed with a
\* transient network/TLS error has not ended before maxRetries attempts; a
\* call whose first K < maxRetries requests failed that way and whose next
\* request was answered with a text returns it after exactly K+1 attempts;
\* the wait before retry n is n times the provider's base delay.
C14_RetryDeterminism ==
    /\ (CallEnded /\ ~audioEmpty /\ maxRetries >= 1 /\ OnlyTransientSoFar) =>
           Len(outcomes) >= maxRetries
    /\ (tstate = "Returned" /\ result.how = "text") =>
           /\ result.at = Len(outcomes)
           /\ Len(waits) = Len(outcomes) - 1
    /\ \A n \in DOMAIN waits :
           /\ waits[n] = n * RetryDelay(provider, 1)
           /\ n > 1 => waits[n - 1] <= waits[n]

\* C15: retry exhaustion - a call that ended after nothing but transient
\* failures made exactly maxRetries attempts and threw the error of the last
\* attempt.
C15_RetryExhaustion ==
    (CallEnded /\ ~audioEmpty /\ maxRetries >= 1 /\ OnlyTransientSoFar) =>
        /\ Len(outcomes) = maxRetries
        /\ tstate = "Threw"
        /\ result.how = "error"
        /\ result.at = maxRetries
        /\ result.err = outcomes[maxRetries]

\* C16: a request that timed out is the last request of the call - the call
\* throws the timeout error at that attempt, whatever the provider and the
\* attempt number.
C16_TimeoutNotRetried ==
    \A i \in DOMAIN outcomes :
        outcomes[i] = "timeout" =>
            /\ i = Len(outcomes)
            /\ tstate = "Threw"
            /\ result.err = "timeout"
            /\ result.at = i

\* C17: a request that ended with a 4xx status or with an empty or
\* whitespace-only text is the last request of the call - the call throws
\* that error at that attempt, whatever the provider and the attempt number.
C17_ClientErrorAndEmptyTerminal ==
    \A i \in DOMAIN outcomes :
        outcomes[i] \in {"http4xx", "empty"} =>
            /\ i = Len(outcomes)
            /\ tstate = "Threw"
            /\ result.how = "error"
            /\ result.err = outcomes[i]
            /\ result.at = i
            /\ Len(waits) = i - 1

C17_Witness ==
    /\ Len(outcomes) = 2
    /\ outcomes[2] = "empty"
    /\ attempt < maxRetries
    /\ tstate = "Threw"

\* C18: whenever transcribe() returns normally, whatever maxRetries is, the
\* value is a non-empty string without a blank at either end.
C18_ReturnsTrimmedText ==
    tstate = "Returned" =>
        /\ result.how = "text"
        /\ result.text # << >>
        /\ Head(result.text) # " "
        /\ result.text[Len(result.text)] # " "

\* --------------------------------------------- claims on provider selection
SelectionEnded == sel.at \in {"Done", "Failed"}

\* the key the named provider's configuration is built from
ConfigKeyOf(n) == IF n = "nexara" THEN env.NEXARA_API_KEY ELSE << >>

\* C19: with TRANSCRIPTION_PROVIDER or PROVIDER set, the selection goes by
\* that name alone, whatever credentials are present - it yields the class
\* registered under the name or fails, as unknown when the name is not
\* registered and as invalid when the named provider's configuration is
\* not valid; it never yields a provider found by its credential.
C19_ExplicitNameOnly ==
    LET name == IF env.TRANSCRIPTION_PROVIDER # ""
                   THEN env.TRANSCRIPTION_PROVIDER ELSE env.PROVIDER
        norm == Normalize(name)
    IN  (name # "" /\ sel.at # "Start") =>
            /\ sel.how = "explicit"
            /\ sel.name = name
            /\ sel.at = "Done" =>
                   /\ norm \in registry
                   /\ sel.made = ProviderClass(norm)
                   /\ validateConfig(ConfigKeyOf(norm))
            /\ SelectionEnded =>
                   /\ norm \notin registry =>
                          (sel.at = "Failed" /\ sel.error = "unknown")
                   /\ (norm \in registry /\ ~validateConfig(ConfigKeyOf(norm))) =>
                          (sel.at = "Failed" /\ sel.error = "invalid")

\* an unknown name next to a valid Nexara key: no fallback to the key
C19_Witness ==
    /\ env.TRANSCRIPTION_PROVIDER = "whisper"
    /\ validateConfig(env.NEXARA_API_KEY)
    /\ sel.at = "Failed"
    /\ sel.error = "unknown"
    /\ sel.made = "none"

\* the registered providers whose credential the environment holds
CredentialsPresent ==
    {n \in registry :
        IF n = "nexara" THEN env.NEXARA_API_KEY # << >>
                        ELSE env.PALATINE_API_KEY # << >>}

\* C20: with neither TRANSCRIPTION_PROVIDER nor PROVIDER set, the selection
\* yields a provider only if exactly one known provider's credential is
\* present; with none or more than one it fails with an error that lists all
\* known providers.
C20_DetectExactlyOne ==
    (env.TRANSCRIPTION_PROVIDER = "" /\ env.PROVIDER = "" /\ SelectionEnded) =>
        /\ sel.at = "Done" => Cardinality(CredentialsPresent) = 1
        /\ Cardinality(CredentialsPresent) # 1 =>
               /\ sel.at = "Failed"
               /\ sel.listed = registry

\* create() has returned or thrown
CreateEnded ==
    \/ sel.at \in {"Construct", "Done"}
    \/ sel.at = "Failed" /\ sel.error # "notConfigured"

C22_BackupBeforeTranscribing ==
    runAt = "Transcribing" => sessionNo \in recordings

\* C23: after a session that completed its backup file is absent, and after
\* a session that failed with captured audio its backup file exists.
C23_BackupLifecycle ==
    /\ runAt = "Completed" => sessionNo \notin recordings
    /\ (runAt = "Failed" /\ audio) => sessionNo \in recordings

\* C24: at no time are there more than KeepBackups backup files, and once
\* KeepBackups + 1 sessions have handed audio on and the last of them is
\* over, exactly KeepBackups backup files remain.
C24_BackupPruning ==
    /\ Cardinality(recordings) <= KeepBackups
    /\ (captured = KeepBackups + 1 /\ runExit # NotExited) =>
           Cardinality(recordings) = KeepBackups

\* C25: a running session never depends on a sound subprocess to go on -
\* in every state before the process exits a step of the session itself
\* is possible, whatever the sound subprocesses do.
C25_NotifyNeverGates ==
    (runAt # "Idle" /\ runExit = NotExited) => ENABLED PipelineStep

\* C26: whenever a live process that wrote the lock is in Recording, the
\* pid file exists and holds that process's pid.
C26_LockNamesRecorder ==
    \A p \in Procs :
        (Owner(p) /\ sess[p] = "Recording") => pidFile = p

\* C27: when the owner's event loop takes the exit of a recorder that ended by
\* itself during Recording, the session leaves Recording; and a stop signal
\* that comes after it does not leave the session waiting in StopRequested.
C27_RecorderExitEndsCapture ==
    [][\A p \in Procs :
          /\ (/\ sess[p] = "Recording"
              /\ rec[p] = "exited"
              /\ rec'[p] # "exited"
              /\ pc'[p] # "Exited") => sess'[p] # "Recording"
          /\ (/\ sess[p] = "Recording"
              /\ rec[p] = "gone"
              /\ pc'[p] # "Exited") => sess'[p] # "StopRequested"]_vars

\* the pid file is gone when the inspection is about to read or unlink it
LockFailure(p) == pc[p] \in {"ReadPid", "UnlinkStale"} /\ pidFile = None

C29_ServerErrorPerProvider ==
    \A i \in DOMAIN outcomes :
        outcomes[i] = "http5xx" =>
            IF provider = "PalatineProvider" /\ i < maxRetries
               THEN /\ Len(waits) >= i
                    /\ waits[i] = 2000 * i
                    /\ tstate = "Threw" => result.at > i
               ELSE /\ i = Len(outcomes)
                    /\ Len(waits) = i - 1
                    /\ tstate = "Threw"
                    /\ result.how = "error"
                    /\ result.err = "http5xx"
                    /\ result.at = i

\* Palatine waited 4000 ms after a 5xx answer to its second request
C29_Witness ==
    /\ provider = "PalatineProvider"
    /\ Len(outcomes) >= 2
    /\ outcomes[2] = "http5xx"
    /\ Len(waits) >= 2
    /\ waits[2] = 4000

\* C30: a log() call that writes and finds the current log at maxSize or
\* above replaces the .old file by the current log and leaves a new current
\* log that ends with the new entry and holds nothing of the old one; one
\* that finds it below maxSize, or finds no log, appends the entry and
\* leaves the .old file as it is.
C30_SingleRotation ==
    [][(log /\ logFile' # logFile) =>
          IF logFile.exists /\ Size(logFile.lines) >= maxSize
             THEN /\ oldFile' = logFile
                  /\ \E e \in Entries :
                        logFile'.lines = << RotationNote, e >>
             ELSE /\ oldFile' = oldFile
                  /\ \E e \in Entries :
                        logFile'.lines = Append(logFile.lines, e)]_vars

\* a rotation has replaced an .old file: the current log starts with the
\* rotation note and the .old file holds a log that had reached maxSize
C30_Witness ==
    /\ logOn
    /\ maxSize > 0
    /\ oldFile.exists
    /\ Size(oldFile.lines) = maxSize
    /\ Len(oldFile.lines) >= 2
    /\ logFile.exists
    /\ Len(logFile.lines) = 2
    /\ logFile.lines[1] = RotationNote

\* C31: the orphan cleanup of an invocation leaves the running recorder of
\* every live process running.
C31_OrphanCleanupSparesLive ==
    [][\A p \in Procs :
          (pc[p] = "KillOrphans" /\ pc'[p] # pc[p]) =>
              \A q \in Procs :
                  (Alive(q) /\ rec[q] = "running") => rec'[q] = "running"]_vars

\* C32: a step in which a process ends with ProcessManager.cleanup leaves a
\* pid file that names another, live process as it is.
C32_CleanupOnlyOwnLock ==
    [][\A p \in Procs :
          (/\ pc[p] # "Exited"
           /\ pc'[p] = "Exited"
           /\ cleaned'[p]
           /\ pidFile # None
           /\ pidFile # p
           /\ Alive(pidFile)) => pidFile' = pidFile]_vars

\* the order of the phases of a session
PhaseRank(ph) ==
    CASE ph = "Idle" -> 0
      [] ph = "Recording" -> 1
      [] ph = "StopRequested" -> 2
      [] ph = "Transcribing" -> 3
      [] ph = "Delivering" -> 4
      [] OTHER -> 5

\* C33: however many stop signals reach an owner, its session never goes
\* back to an earlier phase, it enters Transcribing only from the capture
\* and Delivering only from Transcribing - so transcribe() and the clipboard
\* delivery are each called at most once in a session.
C33_OneTranscribeOneDelivery ==
    [][\A p \in Procs :
          /\ PhaseRank(sess'[p]) >= PhaseRank(sess[p])
          /\ (sess'[p] = "Transcribing" /\ sess[p] # "Transcribing") =>
                 sess[p] \in {"Recording", "StopRequested"}
          /\ (sess'[p] = "Delivering" /\ sess[p] # "Delivering") =>
                 sess[p] = "Transcribing"]_vars

\* the owner delivers after a stop ended its capture, and the next stop
\* signal is already pending
C33_Witness ==
    /\ sess[Owner1] = "Delivering"
    /\ audioLen[Owner1] # NoRead
    /\ stopPending[Owner1]

\* C34: an invocation whose probe found the lock's pid alive and whose stop
\* signal then failed exits with status 0 in that step, has no session and
\* no lock of its own, and leaves the lock file as it was.
C34_FailedStopStillRelays ==
    [][\A p \in Procs :
          (pc[p] = "SendStop" /\ sentStop'[p] = "dead") =>
              /\ pc'[p] = "Exited"
              /\ exitCode'[p] = ExitOk
              /\ sess'[p] = "Idle"
              /\ ~wrote'[p]
              /\ pidFile' = pidFile]_vars

\* the probe answered "alive", the target ended, the kill failed and the
\* invocation exited 0 with the lock still naming the target
C34_Witness ==
    \E p \in Procs :
        /\ branch[p] = "live"
        /\ sentStop[p] = "dead"
        /\ exitCode[p] = ExitOk
        /\ pidFile = existingPid[p]

\* C35: an invocation that reads a pid file whose content is not a number
\* takes it for no lock: it goes on to delete the file and has no pid to
\* probe or signal.
C35_NotANumberIsNoLock ==
    [][\A p \in Procs :
          (pc[p] = "ReadPid" /\ pc'[p] # pc[p] /\ pidFile \in NotNumbers) =>
              /\ pc'[p] = "UnlinkStale"
              /\ existingPid'[p] = None]_vars

\* the error sounds the session has started
ErrorSounds == {i \in DOMAIN played : played[i].event = "error"}

\* C36: with notifications enabled a failed session has started the error
\* sound exactly once, and a session that completed or ended without audio
\* has started none.
C36_OneFailureNotification ==
    /\ (runAt = "Failed" /\ soundOn) => Cardinality(ErrorSounds) = 1
    /\ runAt \in {"Completed", "Empty"} => ErrorSounds = {}

====
